---------------------------- MODULE Spec2Model ----------------------------
(***************************************************************************)
(* tiwatch: a Watch/Get/Set/Delete API over one SQL table (k, v, version). *)
(* The model has the table, the transactions of Set and Delete statement   *)
(* by statement, the point reads Get and getMaxVersion, the process-wide   *)
(* map b.versions and the polling goroutine that Watch starts.             *)
(***************************************************************************)
EXTENDS Integers, Sequences, FiniteSets, TLC

\* ---------------------------------------------------------------- universe
Keys == {"k1", "k2"}
\* the key the Watch loops and their writer work on
WatchKey == "k1"
Values == {"a", "b"}
\* concurrent callers of Set and Delete
Txns == {"t1", "t2"}
\* the single writer of the specifications that have Watch loops
WatchTxns == {"t1"}
\* goroutines started by Watch
Watchers == {"w1", "w2"}
NoTxn == "-"
\* b.versions has no entry for the key
NoEntry == -1

\* bounds of the model
MaxCalls == 3
MaxInitVersion == 1
MaxFaults == 1
\* the version of the row that the specification SpecDeep starts from
DeepVersion == 3
\* the calls of the writer of the specification SpecChurn
MaxChurn == 4

VARIABLES
    store,      \* the table: key -> row (present, v, version)
    lock,       \* key -> the transaction holding its row lock
    txn,        \* caller -> its Set/Delete call in progress and its last result
    calls,      \* number of Set/Delete calls made so far
    faults,     \* number of store errors so far
    got,        \* what the last Get call returned
    epoch,      \* history: per key, the commits since the key was last absent
    versions,   \* b.versions: key -> last version seen by a Watch loop
    watch,      \* Watch goroutine -> its position and locals
    events,     \* Watch goroutine -> the Ops its consumer has received
    obs         \* history: per Watch goroutine, what happened since its baseline

vars == <<store, lock, txn, calls, faults, got, epoch, versions, watch, events, obs>>

\* ------------------------------------------------------------- the table
\* no row for the key
Absent == [present |-> FALSE, v |-> "", version |-> 0]

Row(v, n) == [present |-> TRUE, v |-> v, version |-> n]

\* INSERT (k, v, 0) ON DUPLICATE KEY UPDATE v = VALUES(v), version = version + 1
UpsertFromOne(row, v) ==
    IF row.present THEN Row(v, row.version + 1) ELSE Row(v, 1)

Upsert(row, v) ==
    IF row.present THEN Row(v, row.version + 1) ELSE Row(v, 0)

\* DELETE FROM t WHERE k = ?
DeleteTombstone(row) ==
    IF row.present THEN Row("", row.version) ELSE Absent

DeleteRow(row) == Absent

\* SELECT IFNULL(MAX(version), 0) WHERE k = ?  (an aggregate: always one row)
getMaxVersion(st, k) ==
    IF st[k].present THEN st[k].version ELSE 0

\* the err of getMaxVersion when the query runs: Scan finds the one row of the
\* aggregate, also when no row has the key. ScanNoRows is the Scan of a query
\* without the aggregate, which has no row for an absent key.
ScanNoRows(st, k) == IF st[k].present THEN "nil" ELSE "ErrNoRows"

getMaxVersionErr(st, k) == "nil"

\* SELECT v WHERE k = ? ORDER BY version DESC LIMIT 1, then Scan:
\* sql.ErrNoRows -> ("", false, nil); another error -> ("", false, err)
GetStale(st, k, fails) ==
    IF fails THEN [val |-> "", found |-> FALSE, err |-> TRUE]
    ELSE IF st[k].present
         THEN [val |-> "", found |-> TRUE, err |-> FALSE]
         ELSE [val |-> "", found |-> FALSE, err |-> FALSE]

Get(st, k, fails) ==
    IF fails THEN [val |-> "", found |-> FALSE, err |-> TRUE]
    ELSE IF st[k].present
         THEN [val |-> st[k].v, found |-> TRUE, err |-> FALSE]
         ELSE [val |-> "", found |-> FALSE, err |-> FALSE]

\* SELECT k ... FOR UPDATE: the row lock of the key is free
CanLockAlways(t, k) == TRUE

CanLock(t, k) == lock[k] = NoTxn

\* txn.Exec: a statement of an open transaction changes nothing that others
\* (or a later rollback) can see; its row is kept in the transaction
StmtAutocommit(st, k, row) == [st EXCEPT ![k] = row]

StmtVisible(st, k, row) == st

\* txn.Commit: the transaction's row becomes the stored row
CommitEveryKey(st, k, row) == [j \in Keys |-> row]

CommitVisible(st, k, row) == [st EXCEPT ![k] = row]

\* ------------------------------------------------------- calls: Set, Delete
IdleTxn(res, at) ==
    [pc |-> "idle", op |-> "-", key |-> "-", val |-> "", buf |-> Absent,
     seen |-> Absent, res |-> res, at |-> at]

InTxn == {"begin", "lock", "stmt", "commit"}

\* history of a key: base = its row when it was last absent or at the start,
\* sets = Set commits since, last = the last commit ("-": none yet), delVer =
\* what getMaxVersion gave before the last Delete commit (NoEntry: none yet)
EpochOf(row) == [base |-> row, sets |-> 0, last |-> "-", delVer |-> NoEntry]

NoteCommit(e, op, v, before) ==
    IF op = "set"
    THEN [e EXCEPT !.sets = @ + 1, !.last = v]
    ELSE [base |-> Absent, sets |-> 0, last |-> "del", delVer |-> before]

\* the commits on a key since a poll, by shape: "none", "set" (one Set),
\* "sets" (two Sets or more), "del" (one Delete), "delset" (a Delete, then
\* one Set), "other"; After is the shape with one more commit
After(since, op) ==
    IF since = "none" THEN op
    ELSE IF since \in {"set", "sets"} /\ op = "set" THEN "sets"
    ELSE IF since = "del" /\ op = "set" THEN "delset"
    ELSE "other"

\* a commit of op on key k: every Watch loop on k has an unseen write
NoteWrite(o, k, op) ==
    [w \in Watchers |->
        IF watch[w].pc # "off" /\ watch[w].key = k
        THEN [o[w] EXCEPT !.quietStart = FALSE, !.quietBase = FALSE,
                          !.settled = FALSE,
                          !.since = After(@, op),
                          !.batch = IF @ = "none" THEN "none" ELSE "void",
                          !.delPoll = @ \/ op = "del",
                          !.delTrack = @ \/ op = "del"]
        ELSE o[w]]

\* Set(key, value) is called, as one of at most max calls
CallSetUpTo(t, k, v, max) ==
    /\ txn[t].pc = "idle"
    /\ calls < max
    /\ calls' = calls + 1
    /\ txn' = [txn EXCEPT ![t] = [IdleTxn("none", "-") EXCEPT
                   !.pc = "begin", !.op = "set", !.key = k, !.val = v]]
    /\ UNCHANGED <<store, lock, faults, got, epoch, versions, watch, events, obs>>

CallSet(t, k, v) == CallSetUpTo(t, k, v, MaxCalls)

\* Delete(key) is called, as one of at most max calls
CallDeleteUpTo(t, k, max) ==
    /\ txn[t].pc = "idle"
    /\ calls < max
    /\ calls' = calls + 1
    /\ txn' = [txn EXCEPT ![t] = [IdleTxn("none", "-") EXCEPT
                   !.pc = "begin", !.op = "del", !.key = k]]
    /\ UNCHANGED <<store, lock, faults, got, epoch, versions, watch, events, obs>>

CallDelete(t, k) == CallDeleteUpTo(t, k, MaxCalls)

\* b.db.Begin() succeeds
Begin(t) ==
    /\ txn[t].pc = "begin"
    /\ txn' = [txn EXCEPT ![t].pc = "lock"]
    /\ UNCHANGED <<store, lock, calls, faults, got, epoch, versions, watch, events, obs>>

\* SELECT k FROM t WHERE k = ? FOR UPDATE succeeds: the row lock is taken
LockRow(t) ==
    /\ txn[t].pc = "lock"
    /\ CanLock(t, txn[t].key)
    /\ lock' = [lock EXCEPT ![txn[t].key] = t]
    /\ txn' = [txn EXCEPT ![t].pc = "stmt", ![t].seen = store[txn[t].key]]
    /\ UNCHANGED <<store, calls, faults, got, epoch, versions, watch, events, obs>>

\* the INSERT ... ON DUPLICATE KEY UPDATE of Set succeeds
SetUpsert(t) ==
    /\ txn[t].pc = "stmt"
    /\ txn[t].op = "set"
    /\ LET row == Upsert(store[txn[t].key], txn[t].val) IN
        /\ txn' = [txn EXCEPT ![t].pc = "commit", ![t].buf = row]
        /\ store' = StmtVisible(store, txn[t].key, row)
    /\ UNCHANGED <<lock, calls, faults, got, epoch, versions, watch, events, obs>>

\* the DELETE of Delete succeeds
DeleteStmt(t) ==
    /\ txn[t].pc = "stmt"
    /\ txn[t].op = "del"
    /\ LET row == DeleteRow(store[txn[t].key]) IN
        /\ txn' = [txn EXCEPT ![t].pc = "commit", ![t].buf = row]
        /\ store' = StmtVisible(store, txn[t].key, row)
    /\ UNCHANGED <<lock, calls, faults, got, epoch, versions, watch, events, obs>>

\* txn.Commit() succeeds and the call returns nil
Commit(t) ==
    /\ txn[t].pc = "commit"
    /\ LET k == txn[t].key IN
        /\ store' = CommitVisible(store, k, txn[t].buf)
        /\ lock' = [lock EXCEPT ![k] = NoTxn]
        /\ epoch' = [epoch EXCEPT ![k] = NoteCommit(@, txn[t].op, txn[t].val,
                                                  getMaxVersion(store, k))]
        /\ obs' = NoteWrite(obs, k, txn[t].op)
    /\ txn' = [txn EXCEPT ![t] = IdleTxn("ok", "commit")]
    /\ UNCHANGED <<calls, faults, got, versions, watch, events>>

\* Begin, the row lock, the statement or Commit returns an error: the call
\* returns it and the deferred txn.Rollback() ends the transaction
TxnFault(t) ==
    /\ txn[t].pc \in InTxn
    /\ faults < MaxFaults
    /\ faults' = faults + 1
    /\ lock' = [k \in Keys |-> IF lock[k] = t THEN NoTxn ELSE lock[k]]
    /\ txn' = [txn EXCEPT ![t] = IdleTxn("err", txn[t].pc)]
    /\ UNCHANGED <<store, calls, got, epoch, versions, watch, events, obs>>

\* ------------------------------------------------------------- calls: Get
NoGet == [key |-> "-", val |-> "", found |-> FALSE, err |-> FALSE, last |-> "-",
          base |-> FALSE]

\* Get(key) by a client; last and base record the key's history at the read
ClientGet(k) ==
    /\ got' = [key |-> k, val |-> Get(store, k, FALSE).val,
               found |-> Get(store, k, FALSE).found,
               err |-> Get(store, k, FALSE).err,
               last |-> epoch[k].last, base |-> epoch[k].base.present]
    /\ got' # got
    /\ UNCHANGED <<store, lock, txn, calls, faults, epoch, versions, watch, events, obs>>

\* Get(key) by a client when the query fails
ClientGetFault(k) ==
    /\ faults < MaxFaults
    /\ faults' = faults + 1
    /\ got' = [key |-> k, val |-> Get(store, k, TRUE).val,
               found |-> Get(store, k, TRUE).found,
               err |-> Get(store, k, TRUE).err,
               last |-> epoch[k].last, base |-> epoch[k].base.present]
    /\ UNCHANGED <<store, lock, txn, calls, epoch, versions, watch, events, obs>>

\* ------------------------------------------------------------ Watch loops
OffWatch == [pc |-> "off", key |-> "-", version |-> 0, remoteVersion |-> 0,
             value |-> "", err |-> FALSE, spin |-> FALSE]

\* history of a Watch loop: early = started before any Set/Delete call,
\* quietStart = no commit on its key since Watch was called, quietBase = no
\* commit since its baseline query, settled = it has polled since the last
\* commit and found nothing new, base = the key's state at its baseline query,
\* since = the commits on its key since its last version query, batch = the
\* commits between the last query that had some before it and the query
\* before that one ("void" once a commit has followed), pos = the loop's
\* version was above 0 at that query, mark = the events received before it,
\* delPoll = a Delete has committed since the query that gave the loop the
\* version it is about to store, delTrack = a Delete has committed since the
\* query that gave b.versions[key] its value
NoObs == [early |-> FALSE, quietStart |-> FALSE, quietBase |-> FALSE,
          settled |-> FALSE, base |-> "-", since |-> "none", batch |-> "none",
          pos |-> FALSE, mark |-> 0, delPoll |-> FALSE, delTrack |-> FALSE]

\* loop w stores in b.versions[key] the version of its last query
NoteTrack(o, w) ==
    [u \in Watchers |->
        IF watch[u].pc # "off" /\ watch[u].key = watch[w].key
        THEN [o[u] EXCEPT !.delTrack = o[w].delPoll]
        ELSE o[u]]

KeyState(row) == IF row.present THEN row.v ELSE "absent"

Update(v) == [type |-> "Update", val |-> v]
Delete == [type |-> "Delete", val |-> ""]

\* the loop is back at the head of the for: its locals are dead
AtTop(w, spin) ==
    [watch[w] EXCEPT !.pc = "top", !.version = 0, !.remoteVersion = 0,
                     !.value = "", !.err = FALSE, !.spin = spin]

\* Watch(key) is called: the channel is made and the goroutine started
WatchStart(w, k) ==
    /\ watch[w].pc = "off"
    /\ watch' = [watch EXCEPT ![w] = [OffWatch EXCEPT !.pc = "top", !.key = k]]
    /\ obs' = [obs EXCEPT ![w] = [NoObs EXCEPT !.early = (calls = 0),
                                               !.quietStart = TRUE]]
    /\ UNCHANGED <<store, lock, txn, calls, faults, got, epoch, versions, events>>

\* version, ok := b.versions[key]
WatchTop(w) ==
    /\ watch[w].pc = "top"
    /\ watch' = [watch EXCEPT ![w] =
            IF versions[watch[w].key] # NoEntry
            THEN [@ EXCEPT !.pc = "cmp", !.version = versions[watch[w].key],
                           !.spin = FALSE]
            ELSE [@ EXCEPT !.pc = "initq", !.spin = FALSE]]
    /\ UNCHANGED <<store, lock, txn, calls, faults, got, epoch, versions, events, obs>>

\* !ok: version, err = b.getMaxVersion(key) when the query runs; on
\* sql.ErrNoRows the loop calls b.Set(key, ""), taken here as one step
WatchInitQuery(w) ==
    /\ watch[w].pc = "initq"
    /\ watch' = [watch EXCEPT ![w].pc = "initw",
                              ![w].version = getMaxVersion(store, watch[w].key)]
    /\ store' = IF getMaxVersionErr(store, watch[w].key) = "ErrNoRows"
                THEN [store EXCEPT ![watch[w].key] = Upsert(@, "")]
                ELSE store
    /\ obs' = [obs EXCEPT ![w].quietBase = TRUE,
                          ![w].base = KeyState(store[watch[w].key]),
                          ![w].since = "none",
                          ![w].delPoll = FALSE]
    /\ UNCHANGED <<lock, txn, calls, faults, got, epoch, versions, events>>

\* !ok: getMaxVersion returns (0, err); err is not sql.ErrNoRows (the query
\* is an aggregate), so it is logged
WatchInitQueryFault(w) ==
    /\ watch[w].pc = "initq"
    /\ faults < MaxFaults
    /\ faults' = faults + 1
    /\ watch' = [watch EXCEPT ![w].pc = "initw", ![w].version = 0,
                              ![w].err = TRUE]
    /\ obs' = [obs EXCEPT ![w].quietBase = TRUE,
                          ![w].base = KeyState(store[watch[w].key])]
    /\ UNCHANGED <<store, lock, txn, calls, got, epoch, versions, events>>

\* b.versions[key] = version
WatchInitWrite(w) ==
    /\ watch[w].pc = "initw"
    /\ versions' = [versions EXCEPT ![watch[w].key] = watch[w].version]
    /\ watch' = [watch EXCEPT ![w].pc = "cmp"]
    /\ obs' = NoteTrack(obs, w)
    /\ UNCHANGED <<store, lock, txn, calls, faults, got, epoch, events>>

\* where the loop goes once it has remoteVersion
BranchOnZero(version, remoteVersion) ==
    IF remoteVersion = 0 THEN "senddel"
    ELSE IF remoteVersion > version THEN "get"
    ELSE "sleep"

Branch(version, remoteVersion) ==
    IF remoteVersion = 0 /\ version > 0 THEN "senddel"
    ELSE IF remoteVersion > version THEN "get"
    ELSE "sleep"

\* remoteVersion, err := b.getMaxVersion(key) with err == nil, and the ifs
WatchCompare(w) ==
    /\ watch[w].pc = "cmp"
    /\ LET remote == getMaxVersion(store, watch[w].key)
           to == Branch(watch[w].version, remote) IN
        /\ watch' = [watch EXCEPT ![w].pc = to,
                        ![w].remoteVersion = IF to = "get" THEN remote ELSE 0,
                        ![w].version = IF to = "sleep" THEN 0 ELSE @,
                        ![w].err = FALSE]
        /\ obs' = [obs EXCEPT
                ![w].settled = IF to = "sleep" THEN TRUE ELSE @,
                ![w].since = "none",
                ![w].batch = IF obs[w].since = "none" THEN @ ELSE obs[w].since,
                ![w].pos = IF obs[w].since = "none" THEN @
                           ELSE watch[w].version > 0,
                ![w].mark = IF obs[w].since = "none" THEN @
                            ELSE Len(events[w]),
                ![w].delPoll = IF to = "get" THEN FALSE ELSE @]
    /\ UNCHANGED <<store, lock, txn, calls, faults, got, epoch, versions, events>>

\* remoteVersion, err := b.getMaxVersion(key) with err != nil: log, continue
WatchCompareFault(w) ==
    /\ watch[w].pc = "cmp"
    /\ faults < MaxFaults
    /\ faults' = faults + 1
    /\ watch' = [watch EXCEPT ![w] = AtTop(w, TRUE)]
    /\ UNCHANGED <<store, lock, txn, calls, got, epoch, versions, events, obs>>

\* value, _, err := b.Get(key) with err == nil
WatchGet(w) ==
    /\ watch[w].pc = "get"
    /\ watch' = [watch EXCEPT ![w].pc = "sendupd",
                              ![w].value = Get(store, watch[w].key, FALSE).val]
    /\ UNCHANGED <<store, lock, txn, calls, faults, got, epoch, versions, events, obs>>

\* value, _, err := b.Get(key) with err != nil
\* (WatchGetFaultSends: without the continue)
WatchGetFaultSends(w) ==
    /\ watch[w].pc = "get"
    /\ faults < MaxFaults
    /\ faults' = faults + 1
    /\ watch' = [watch EXCEPT ![w].pc = "sendupd",
                              ![w].value = Get(store, watch[w].key, TRUE).val]
    /\ UNCHANGED <<store, lock, txn, calls, got, epoch, versions, events, obs>>

\* value, _, err := b.Get(key) with err != nil: log, continue
WatchGetFault(w) ==
    /\ watch[w].pc = "get"
    /\ faults < MaxFaults
    /\ faults' = faults + 1
    /\ Get(store, watch[w].key, TRUE).err
    /\ watch' = [watch EXCEPT ![w] = AtTop(w, TRUE)]
    /\ UNCHANGED <<store, lock, txn, calls, got, epoch, versions, events, obs>>

\* ch <- Op{Type: TypeDelete, Key: key}: the consumer receives it
RecvDelete(w) ==
    /\ watch[w].pc = "senddel"
    /\ events' = [events EXCEPT ![w] = Append(@, Delete)]
    /\ watch' = [watch EXCEPT ![w].pc = "setdel"]
    /\ UNCHANGED <<store, lock, txn, calls, faults, got, epoch, versions, obs>>

\* b.versions[key] = 0; continue
\* (WatchAfterDeleteKeeps: without the assignment)
WatchAfterDeleteKeeps(w) ==
    /\ watch[w].pc = "setdel"
    /\ watch' = [watch EXCEPT ![w] = AtTop(w, TRUE)]
    /\ UNCHANGED <<store, lock, txn, calls, faults, got, epoch, versions, events, obs>>

WatchAfterDelete(w) ==
    /\ watch[w].pc = "setdel"
    /\ versions' = [versions EXCEPT ![watch[w].key] = 0]
    /\ watch' = [watch EXCEPT ![w] = AtTop(w, TRUE)]
    /\ UNCHANGED <<store, lock, txn, calls, faults, got, epoch, events, obs>>

\* ch <- Op{Type: TypeUpdate, Key: key, Val: value}: the consumer receives it
RecvUpdate(w) ==
    /\ watch[w].pc = "sendupd"
    /\ events' = [events EXCEPT ![w] = Append(@, Update(watch[w].value))]
    /\ watch' = [watch EXCEPT ![w].pc = "setupd"]
    /\ UNCHANGED <<store, lock, txn, calls, faults, got, epoch, versions, obs>>

\* b.versions[key] = remoteVersion, and the loop goes round without sleeping
WatchAfterUpdate(w) ==
    /\ watch[w].pc = "setupd"
    /\ versions' = [versions EXCEPT ![watch[w].key] = watch[w].remoteVersion]
    /\ watch' = [watch EXCEPT ![w] = AtTop(w, TRUE)]
    /\ obs' = NoteTrack(obs, w)
    /\ UNCHANGED <<store, lock, txn, calls, faults, got, epoch, events>>

\* time.Sleep(PollDuration) returns
WatchSleep(w) ==
    /\ watch[w].pc = "sleep"
    /\ watch' = [watch EXCEPT ![w] = AtTop(w, FALSE)]
    /\ UNCHANGED <<store, lock, txn, calls, faults, got, epoch, versions, events, obs>>

\* the statements that read or write the map b.versions
MapReads == {"top"}
MapWrites == {"initw", "setdel", "setupd"}

\* two goroutines are in b.versions at once, one of them writing: the Go
\* runtime may stop the process ("fatal error: concurrent map writes", or
\* "concurrent map read and map write"); the store then drops the open
\* transactions
MapRace ==
    /\ \E w1, w2 \in Watchers :
        /\ w1 # w2
        /\ watch[w1].pc \in MapWrites
        /\ watch[w2].pc \in MapWrites \cup MapReads
    /\ watch' = [w \in Watchers |-> [OffWatch EXCEPT !.pc = "dead"]]
    /\ txn' = [t \in Txns |-> [IdleTxn("none", "-") EXCEPT !.pc = "dead"]]
    /\ lock' = [k \in Keys |-> NoTxn]
    /\ UNCHANGED <<store, calls, faults, got, epoch, versions, events, obs>>

\* ---------------------------------------------------------- specifications
InitRows == {Absent} \cup {Row(v, n) : v \in Values, n \in 0..MaxInitVersion}

InitCommon ==
    /\ lock = [k \in Keys |-> NoTxn]
    /\ txn = [t \in Txns |-> IdleTxn("none", "-")]
    /\ calls = 0
    /\ faults = 0
    /\ got = NoGet
    /\ epoch = [k \in Keys |-> EpochOf(store[k])]
    /\ versions = [k \in Keys |-> NoEntry]
    /\ watch = [w \in Watchers |-> OffWatch]
    /\ events = [w \in Watchers |-> <<>>]
    /\ obs = [w \in Watchers |-> NoObs]

\* the table may hold rows of earlier runs; no call is in progress
InitStore ==
    /\ store \in [Keys -> InitRows]
    /\ InitCommon

\* the same, with rows of earlier runs under WatchKey only
InitWatch ==
    /\ store \in {st \in [Keys -> InitRows] :
                     \A k \in Keys \ {WatchKey} : st[k] = Absent}
    /\ InitCommon

NextStore ==
    \/ \E t \in Txns, k \in Keys, v \in Values : CallSet(t, k, v)
    \/ \E t \in Txns, k \in Keys : CallDelete(t, k)
    \/ \E t \in Txns : Begin(t)
    \/ \E t \in Txns : LockRow(t)
    \/ \E t \in Txns : SetUpsert(t)
    \/ \E t \in Txns : DeleteStmt(t)
    \/ \E t \in Txns : Commit(t)
    \/ \E t \in Txns : TxnFault(t)

\* Set and Delete by concurrent callers on both keys, with store errors
SpecStore == InitStore /\ [][NextStore]_vars

NextGet ==
    \/ \E t \in Txns, v \in Values : CallSet(t, WatchKey, v)
    \/ \E t \in Txns : CallDelete(t, WatchKey)
    \/ \E t \in Txns : Begin(t)
    \/ \E t \in Txns : LockRow(t)
    \/ \E t \in Txns : SetUpsert(t)
    \/ \E t \in Txns : DeleteStmt(t)
    \/ \E t \in Txns : Commit(t)
    \/ \E t \in Txns : TxnFault(t)
    \/ \E k \in Keys : ClientGet(k)
    \/ \E k \in Keys : ClientGetFault(k)

\* Get by a client beside concurrent Set and Delete on one key, with store errors
SpecGet == InitWatch /\ [][NextGet]_vars

\* the steps of the writer beside Watch loops
WriterStep ==
    \/ \E t \in WatchTxns, v \in Values : CallSet(t, WatchKey, v)
    \/ \E t \in WatchTxns : CallDelete(t, WatchKey)
    \/ \E t \in WatchTxns : Begin(t)
    \/ \E t \in WatchTxns : LockRow(t)
    \/ \E t \in WatchTxns : SetUpsert(t)
    \/ \E t \in WatchTxns : DeleteStmt(t)
    \/ \E t \in WatchTxns : Commit(t)

\* the steps of Watch loop w when the store answers
WatchStep(w) ==
    \/ WatchStart(w, WatchKey)
    \/ WatchTop(w)
    \/ WatchInitQuery(w)
    \/ WatchInitWrite(w)
    \/ WatchCompare(w)
    \/ WatchGet(w)
    \/ RecvDelete(w)
    \/ WatchAfterDelete(w)
    \/ RecvUpdate(w)
    \/ WatchAfterUpdate(w)
    \/ WatchSleep(w)

\* the steps in which a store call returns an error
FaultStep(w) ==
    \/ \E t \in WatchTxns : TxnFault(t)
    \/ WatchInitQueryFault(w)
    \/ WatchCompareFault(w)
    \/ WatchGetFault(w)

Next ==
    \/ WriterStep
    \/ WatchStep("w1")
    \/ FaultStep("w1")

\* one Watch loop and one writer on WatchKey, with store errors
Spec == InitWatch /\ [][Next]_vars

NextNoFault ==
    \/ WriterStep
    \/ WatchStep("w1")

\* one Watch loop and one writer on WatchKey; every store call succeeds
SpecNoFault == InitWatch /\ [][NextNoFault]_vars

\* both Watch calls are made before the first Set/Delete call
WatchStartEarly(w) ==
    /\ calls = 0
    /\ WatchStart(w, WatchKey)

\* the steps of Watch loop w after its start, when the store answers
WatchLoopStep(w) ==
    \/ WatchTop(w)
    \/ WatchInitQuery(w)
    \/ WatchInitWrite(w)
    \/ WatchCompare(w)
    \/ WatchGet(w)
    \/ RecvDelete(w)
    \/ WatchAfterDelete(w)
    \/ RecvUpdate(w)
    \/ WatchAfterUpdate(w)
    \/ WatchSleep(w)

\* the key has no row, no call was made
InitAbsent ==
    /\ store = [k \in Keys |-> Absent]
    /\ InitCommon

NextTwoWatch ==
    \/ WriterStep
    \/ \E w \in Watchers : WatchStartEarly(w)
    \/ \E w \in Watchers : WatchLoopStep(w)
    \/ MapRace

\* two Watch loops on WatchKey of one TiWatch, started on an absent key before
\* the one writer's first call; every store call succeeds
SpecTwoWatch == InitAbsent /\ [][NextTwoWatch]_vars

\* the writer of the scenario: Set(key, "a"), Set(key, "b"), Delete(key)
Script == <<[op |-> "set", val |-> "a"], [op |-> "set", val |-> "b"],
            [op |-> "del", val |-> ""]>>

\* the next call of the script, made once the Watch loop has polled since
\* the last commit (before the first call: since its baseline) and found
\* nothing more to report; the previous call has returned
ScriptCall(t, w) ==
    /\ calls < Len(Script)
    /\ obs[w].settled
    /\ \A u \in Txns : txn[u].pc = "idle"
    /\ IF Script[calls + 1].op = "set"
       THEN CallSet(t, WatchKey, Script[calls + 1].val)
       ELSE CallDelete(t, WatchKey)

NextScript ==
    \/ \E t \in Txns : ScriptCall(t, "w1")
    \/ \E t \in Txns : Begin(t)
    \/ \E t \in Txns : LockRow(t)
    \/ \E t \in Txns : SetUpsert(t)
    \/ \E t \in Txns : DeleteStmt(t)
    \/ \E t \in Txns : Commit(t)
    \/ WatchStep("w1")

\* one Watch loop on an absent, never written key and a writer that runs the
\* script, each call after a poll; every store call succeeds
SpecScript == InitAbsent /\ [][NextScript]_vars

\* a row of an earlier run that was Set DeepVersion times after its insert
InitDeep ==
    /\ store = [k \in Keys |->
                    IF k = WatchKey THEN Row("a", DeepVersion) ELSE Absent]
    /\ InitCommon

\* a writer that deletes the key and then sets it four times
DeepScript == <<[op |-> "del", val |-> ""], [op |-> "set", val |-> "a"],
                [op |-> "set", val |-> "b"], [op |-> "set", val |-> "a"],
                [op |-> "set", val |-> "b"]>>

\* the next call of the writer, at any time after the previous one returned
DeepCall(t) ==
    /\ calls < Len(DeepScript)
    /\ IF DeepScript[calls + 1].op = "set"
       THEN CallSetUpTo(t, WatchKey, DeepScript[calls + 1].val, Len(DeepScript))
       ELSE CallDeleteUpTo(t, WatchKey, Len(DeepScript))

NextDeep ==
    \/ \E t \in WatchTxns : DeepCall(t)
    \/ \E t \in WatchTxns : Begin(t)
    \/ \E t \in WatchTxns : LockRow(t)
    \/ \E t \in WatchTxns : SetUpsert(t)
    \/ \E t \in WatchTxns : DeleteStmt(t)
    \/ \E t \in WatchTxns : Commit(t)
    \/ WatchStep("w1")

\* one Watch loop on a key that is at version DeepVersion and the writer of
\* DeepScript; every store call succeeds
SpecDeep == InitDeep /\ [][NextDeep]_vars

\* the steps of a writer that makes up to MaxChurn calls
ChurnStep ==
    \/ \E t \in WatchTxns, v \in Values : CallSetUpTo(t, WatchKey, v, MaxChurn)
    \/ \E t \in WatchTxns : CallDeleteUpTo(t, WatchKey, MaxChurn)
    \/ \E t \in WatchTxns : Begin(t)
    \/ \E t \in WatchTxns : LockRow(t)
    \/ \E t \in WatchTxns : SetUpsert(t)
    \/ \E t \in WatchTxns : DeleteStmt(t)
    \/ \E t \in WatchTxns : Commit(t)

NextChurn ==
    \/ ChurnStep
    \/ WatchStep("w1")

\* one Watch loop and one writer of up to MaxChurn calls on WatchKey; every
\* store call succeeds
SpecChurn == InitWatch /\ [][NextChurn]_vars

\* ------------------------------------------------------------------ claims

\* C3: Set calls that commit on a key that was absent, with no Delete commit
\* between them, leave version i - 1 after the i-th: 0, then one more per call.
C3_VersionCountsSets ==
    \A k \in Keys :
        (~epoch[k].base.present /\ epoch[k].sets >= 1)
            => (store[k].present /\ store[k].version = epoch[k].sets - 1)

\* three Sets have committed in a row on a key that was absent
C3_Witness ==
    \E k \in Keys :
        /\ ~epoch[k].base.present
        /\ epoch[k].sets = 3
        /\ store[k].version = 2

\* what getMaxVersion reported for the key before its Sets began
VersionBefore(k) == getMaxVersion([j \in Keys |-> epoch[j].base], k)

\* C4 as stated: N committed Sets, from any starting state of the key, leave
\* the version N above what getMaxVersion reported before them.
C4_Original ==
    \A k \in Keys :
        epoch[k].sets >= 1
            => store[k].version = VersionBefore(k) + epoch[k].sets

\* C4 amended: N committed Sets, however interleaved, leave a key that had a
\* row at version n at version n + N, and a key that had no row at N - 1.
C4_NoLostUpdate ==
    \A k \in Keys :
        epoch[k].sets >= 1
            => /\ store[k].present
               /\ store[k].version =
                    IF epoch[k].base.present
                    THEN epoch[k].base.version + epoch[k].sets
                    ELSE epoch[k].sets - 1

\* a Set has committed on a key that had a row, a second Set holds the row
\* lock and has run its upsert, a third waits for the lock
C4_Witness ==
    \E k \in Keys, t, u \in Txns :
        /\ t # u
        /\ epoch[k].base.present
        /\ epoch[k].sets = 1
        /\ txn[t].pc = "commit" /\ txn[t].op = "set" /\ txn[t].key = k
        /\ txn[u].pc = "lock" /\ txn[u].op = "set" /\ txn[u].key = k

\* C8: once a Delete has committed on a key, getMaxVersion gives 0, and the
\* next Set to commit stores the key at version 0 (getMaxVersion gives 0 again).
C8_DeleteResetsVersion ==
    \A k \in Keys :
        epoch[k].delVer # NoEntry
            => /\ epoch[k].sets = 0
                    => (~store[k].present /\ getMaxVersion(store, k) = 0)
               /\ epoch[k].sets = 1
                    => /\ store[k].present
                       /\ store[k].version = 0
                       /\ getMaxVersion(store, k) = 0

\* a key at version 1 or more was deleted and then set again
C8_Witness ==
    \E k \in Keys :
        /\ epoch[k].delVer >= 1
        /\ epoch[k].sets = 1
        /\ store[k].present

\* the key of the last Get had no row, by its history
GotAbsent ==
    got.last = "del" \/ (got.last = "-" /\ ~got.base)

\* C9 as stated: Get after a committed Set(key, v), with no commit on the key
\* in between, returns (v, true, nil); Get on an absent key ("", false, nil).
C9_Original ==
    got.key # "-"
        => /\ got.last \in Values
                => (got.val = got.last /\ got.found /\ ~got.err)
           /\ GotAbsent => (got.val = "" /\ ~got.found /\ ~got.err)

\* C9 amended: so it is when the store answers the query; when the query fails
\* Get returns ("", false, err).
C9_ReadYourWrite ==
    got.key # "-"
        => /\ (~got.err /\ got.last \in Values)
                => (got.val = got.last /\ got.found)
           /\ (~got.err /\ GotAbsent) => (got.val = "" /\ ~got.found)
           /\ got.err => (got.val = "" /\ ~got.found)

\* a Get has returned the value of the second Set committed on a key
C9_Witness ==
    /\ got.key = WatchKey
    /\ got.last \in Values
    /\ got.found
    /\ got.val = got.last
    /\ epoch[WatchKey].sets >= 2

\* C10: a Set or Delete call that returns an error changes no row, and when
\* it fails holding the row lock (at its statement or at Commit) the row of its
\* key is the row it found when it took the lock.
C10_FailedCallChangesNothing ==
    [][\A t \in Txns :
        (txn[t].pc \in InTxn /\ txn'[t].res = "err")
            => /\ store' = store
               /\ txn[t].pc \in {"stmt", "commit"}
                    => store'[txn[t].key] = txn[t].seen]_vars

\* a call has failed at Commit, after its statement ran
C10_Witness ==
    \E t \in Txns : txn[t].res = "err" /\ txn[t].at = "commit"

\* the Watch loop has polled since the last commit, found nothing new and
\* sleeps, and no Set or Delete call is in progress
Idle(w) ==
    /\ watch[w].pc = "sleep"
    /\ obs[w].settled
    /\ \A t \in Txns : txn[t].pc = "idle"

\* C1: a Watch loop on an absent, never written key that polls between the
\* writes Set(key, "a"), Set(key, "b"), Delete(key) has delivered exactly
\* Update("a"), Update("b"), Delete once it has polled after the Delete.
C1_Original ==
    (calls = Len(Script) /\ epoch[WatchKey].last = "del" /\ Idle("w1"))
        => events["w1"] = <<Update("a"), Update("b"), Delete>>

\* C2: once the writers have stopped and the one Watch loop has polled after
\* their last commit, if the key's state differs from its state at the loop's
\* baseline, the loop has delivered an event and the last one tells the final
\* state: Update(v) for a key present with v, Delete for an absent key.
C2_Original ==
    \A w \in Watchers :
        (Idle(w) /\ obs[w].base # "-"
                 /\ obs[w].base # KeyState(store[watch[w].key]))
            => /\ events[w] # <<>>
               /\ events[w][Len(events[w])] =
                    IF store[watch[w].key].present
                    THEN Update(store[watch[w].key].v)
                    ELSE Delete

\* C5: two Watch loops on the same key, both started before the first write,
\* have delivered the same sequence of events once both have polled after the
\* last commit.
C5_Original ==
    \A w1, w2 \in Watchers :
        (obs[w1].early /\ obs[w2].early /\ Idle(w1) /\ Idle(w2))
            => events[w1] = events[w2]

\* C6: while no Set or Delete has committed since a Watch loop's baseline, the
\* loop has delivered no event and never comes back to the head of its loop
\* without having slept.
C6_Original ==
    \A w \in Watchers :
        obs[w].quietBase
            => /\ events[w] = <<>>
               /\ ~(watch[w].pc = "top" /\ watch[w].spin)

\* C7: while no Set or Delete has committed since Watch was called, the loop
\* has delivered no event, and once past its first reads it has a baseline.
C7_Original ==
    \A w \in Watchers :
        obs[w].quietStart
            => /\ events[w] = <<>>
               /\ watch[w].pc \in {"cmp", "sleep"}
                    => versions[watch[w].key] # NoEntry

\* a Delete call of t on a key that has no row returns in this step
DeleteOfAbsentReturns(t) ==
    /\ txn[t].op = "del"
    /\ txn[t].pc \in InTxn
    /\ ~store[txn[t].key].present
    /\ txn'[t].pc = "idle"

\* C12 as stated: Delete on a key that has no row returns success and leaves
\* every row as it was.
C12_Original ==
    [][\A t \in Txns :
        DeleteOfAbsentReturns(t)
            => (txn'[t].res = "ok" /\ store' = store)]_vars

\* C12 amended: Delete on a key that has no row leaves every row as it was,
\* and returns success unless one of its store calls fails.
C12_DeleteOfAbsent ==
    [][\A t \in Txns :
        DeleteOfAbsentReturns(t)
            => /\ store' = store
               /\ faults' = faults => txn'[t].res = "ok"]_vars

\* a Delete has returned success on a key with no row, beside a row under
\* the other key
C12_Witness ==
    \E t \in Txns, k, j \in Keys :
        /\ txn[t].res = "ok"
        /\ epoch[k].last = "del"
        /\ epoch[k].delVer = 0
        /\ ~epoch[k].base.present
        /\ ~store[k].present
        /\ j # k
        /\ store[j].present

\* the events that loop w's consumer has received since the poll of the batch
SinceMark(w) == SubSeq(events[w], obs[w].mark + 1, Len(events[w]))

\* C11 as stated: when a poll finds that two or more Sets, and nothing else,
\* have committed since the poll before it, and no commit follows, then once
\* the loop sleeps its consumer has received exactly one Update for them, with
\* the last value, and the tracker is at the row's version.
C11_Original ==
    \A w \in Watchers :
        (watch[w].pc = "sleep" /\ obs[w].batch = "sets")
            => /\ SinceMark(w) = <<Update(store[watch[w].key].v)>>
               /\ versions[watch[w].key] = store[watch[w].key].version

\* C13 as stated: when a poll of a loop whose tracker is above 0 finds that
\* a Delete and then one Set, and nothing else, have committed since the poll
\* before it, and no commit follows, then once the loop sleeps its consumer
\* has received a Delete and then an Update with the recreated value.
C13_Original ==
    \A w \in Watchers :
        (watch[w].pc = "sleep" /\ obs[w].batch = "delset" /\ obs[w].pos)
            => SinceMark(w) = <<Delete, Update(store[watch[w].key].v)>>

\* C14 as stated: after an iteration whose baseline query failed, the tracker
\* still has no entry for the key.
C14_Original ==
    \A w \in Watchers :
        (watch[w].pc = "cmp" /\ watch[w].err)
            => versions[watch[w].key] = NoEntry

\* C15: an iteration of a loop with a baseline whose remote version query
\* fails, or whose Get fails, ends there: it delivers no event and leaves the
\* tracker as it was, so the next iteration compares against the same tracker.
C15_FailedPollChangesNothing ==
    [][\A w \in Watchers :
        (watch[w].pc \in {"cmp", "get"} /\ faults' # faults
                                        /\ watch'[w] # watch[w])
            => /\ watch'[w].pc = "top"
               /\ versions' = versions
               /\ events' = events]_vars

\* a loop is back at the head of the for after a failed query, having
\* delivered nothing, while the row is ahead of its tracker
C15_Witness ==
    \E w \in Watchers :
        /\ watch[w].pc = "top"
        /\ watch[w].spin
        /\ faults > 0
        /\ events[w] = <<>>
        /\ versions[watch[w].key] # NoEntry
        /\ getMaxVersion(store, watch[w].key) > versions[watch[w].key]

\* C16: when a poll makes the loop send a Delete event, the tracker is above
\* 0 and a Delete call has committed since the query that gave the tracker
\* that value; the statement after the send sets the tracker to 0.
C16_DeleteEventHasDelete ==
    [][\A w \in Watchers :
        /\ (watch[w].pc = "cmp" /\ watch'[w].pc = "senddel")
            => /\ versions[watch[w].key] > 0
               /\ obs[w].delTrack
               /\ epoch[watch[w].key].delVer # NoEntry
        /\ (watch[w].pc = "senddel" /\ watch'[w].pc # "senddel")
            => /\ watch'[w].pc = "setdel"
               /\ versions' = versions
        /\ (watch[w].pc = "setdel" /\ watch'[w].pc # "setdel")
            => versions'[watch[w].key] = 0]_vars

\* a Delete event has been received and the tracker set to 0
C16_Witness ==
    \E w \in Watchers :
        /\ watch[w].pc = "top"
        /\ Len(events[w]) > 0
        /\ events[w][Len(events[w])] = Delete
        /\ versions[watch[w].key] = 0
        /\ epoch[watch[w].key].last = "del"

\* C17 as stated: while a loop waits for its consumer to receive an event,
\* the tracker entry of its key does not change.
C17_Original ==
    [][\A w \in Watchers :
        (watch[w].pc \in {"senddel", "sendupd"} /\ watch'[w].pc = watch[w].pc)
            => versions'[watch[w].key] = versions[watch[w].key]]_vars

\* C18 as stated: every Update event carries a value that a Set wrote, never
\* the empty value that Get returns for an absent key.
C18_Original ==
    \A w \in Watchers :
        \A i \in 1..Len(events[w]) :
            events[w][i].type = "Update" => events[w][i].val \in Values

\* C19: the events of the one Watch loop on a key never have two Delete
\* events in a row.
C19_NoDeleteTwice ==
    \A w \in Watchers :
        \A i \in 1..(Len(events[w]) - 1) :
            ~(events[w][i] = Delete /\ events[w][i + 1] = Delete)

\* two Delete events have been received, with an Update between them
C19_Witness ==
    \E w \in Watchers :
        \E i, j, l \in 1..Len(events[w]) :
            /\ i < j
            /\ j < l
            /\ events[w][i] = Delete
            /\ events[w][j].type = "Update"
            /\ events[w][l] = Delete

\* C20: the version query never reports no-rows; the table changes only in
\* the Commit of a caller's Set or Delete, and a key with no row gets one only
\* in the Commit of a caller's Set on it.
C20_WatchWritesNothing ==
    [][/\ \A k \in Keys : getMaxVersionErr(store, k) # "ErrNoRows"
       /\ store' # store
            => \E t \in Txns : txn[t].pc = "commit" /\ txn'[t].pc = "idle"
       /\ \A k \in Keys :
            (~store[k].present /\ store'[k].present)
                => \E t \in Txns : /\ txn[t].pc = "commit"
                                   /\ txn[t].op = "set"
                                   /\ txn[t].key = k
                                   /\ txn'[t].res = "ok"]_vars

\* a loop that took its baseline on a key with no row sleeps after a poll;
\* no call has committed and the key still has no row
C20_Witness ==
    \E w \in Watchers :
        /\ watch[w].pc = "sleep"
        /\ obs[w].base = "absent"
        /\ obs[w].quietStart
        /\ versions[watch[w].key] = 0
        /\ epoch[watch[w].key].last = "-"
        /\ ~Get(store, watch[w].key, FALSE).found
        /\ getMaxVersion(store, watch[w].key) = 0

=============================================================================
